---- MODULE Spec2Model ----
(***************************************************************************)
(* Model of the vehicle crate: tire.rs (Tire::new and the rolling metrics), *)
(* formulas.rs (unit and drivetrain formulas) and slope.rs (line sampling). *)
(*                                                                         *)
(* f64 values are modelled as extended rationals: NaN, +/-infinity, or an   *)
(* exact fraction n/d.  The IEEE-754 rules for the special values are kept  *)
(* (x/0, 0/0, inf*0, inf-inf, comparisons with NaN); a finite result whose  *)
(* magnitude exceeds FloatMax becomes an infinity and a non-zero one below  *)
(* 1/FloatMax becomes zero, as f64::MAX and the smallest subnormal do at    *)
(* full scale.  Rounding of the last bit and the sign of zero are not       *)
(* modelled: decimal literals such as 2.54 are exact fractions here.        *)
(***************************************************************************)
EXTENDS Integers, Sequences, FiniteSets, TLC

VARIABLES
    value,      \* tire.rs: the &str handed to Tire::new, a sequence of characters
    tpc,        \* tire.rs: "start" | "ok" (a Tire was returned) | "panic"
    panicAt,    \* tire.rs: which line panicked ("assert", "unwrap") or "none"
    results,    \* tire.rs: the local Vec<f64> `results` of Tire::new
    diameter,   \* tire.rs: Tire.diameter
    circ,       \* last value returned by Tire::circumference, or None
    mpr,        \* last value returned by Tire::miles_per_rev, or None
    rpmile,     \* last value returned by Tire::revs_per_mile, or None
    call,       \* formulas.rs: the last formula call [fn, a1, a2, a3, result]
    prev,       \* formulas.rs: the call whose result was fed into `call`, or NoCall
    spoints,    \* slope.rs: Slope.points (start and end of the line)
    interval,   \* slope.rs: the argument of get_range_from_interval
    si,         \* slope.rs: the loop variable i
    points,     \* slope.rs: the Vec<Point> being built
    spc         \* slope.rs: "loop" | "done"

tireVars == <<value, tpc, panicAt, results, diameter, circ, mpr, rpmile>>
formulaVars == <<call, prev>>
slopeVars == <<spoints, interval, si, points, spc>>
vars == <<value, tpc, panicAt, results, diameter, circ, mpr, rpmile,
          call, prev, spoints, interval, si, points, spc>>

(***************************************************************************)
(* Bounds of the model.                                                    *)
(***************************************************************************)
\* Stand-in for f64::MAX (and 1/FloatMax for the smallest positive f64).
FloatMax == 1000000
\* Tire codes are concatenations of at most MaxTokens tokens of TireTokens.
MaxTokens == 6
\* hp_to_torque / torque_to_hp are exercised for hp in 1..MaxHp, rpm in 1..MaxRpm.
MaxHp == 6
MaxRpm == 7

(***************************************************************************)
(* f64 arithmetic.                                                         *)
(***************************************************************************)
Abs(x) == IF x < 0 THEN -x ELSE x

Sgn(x) == IF x < 0 THEN -1 ELSE 1

RECURSIVE GCD(_, _)
GCD(a, b) == IF b = 0 THEN a ELSE GCD(b, a % b)

NaN == [k |-> "nan", n |-> 0, d |-> 0]

Inf(s) == [k |-> "inf", n |-> s, d |-> 0]

None == [k |-> "none", n |-> 0, d |-> 0]

\* The fraction n/d (d > 0) in lowest terms.
Rat(n, d) ==
    LET g == GCD(Abs(n), d)
    IN  [k |-> "fin", n |-> Sgn(n) * (Abs(n) \div g), d |-> d \div g]

\* The f64 nearest to n/d (d > 0): overflow to an infinity, underflow to zero.
F64(n, d) ==
    LET a == Abs(n)
    IN  IF n = 0 THEN Rat(0, 1)
        ELSE IF a \div d > FloatMax \/ (a \div d = FloatMax /\ a % d # 0)
             THEN Inf(Sgn(n))
        ELSE IF d \div a > FloatMax \/ (d \div a = FloatMax /\ d % a # 0)
             THEN Rat(0, 1)
        ELSE Rat(n, d)

IsNaN(x) == x.k = "nan"

IsInf(x) == x.k = "inf"

IsFinite(x) == x.k = "fin"

IsZero(x) == x.k = "fin" /\ x.n = 0

FSign(x) == IF x.n < 0 THEN -1 ELSE 1

\* x * y
FMul(x, y) ==
    IF IsNaN(x) \/ IsNaN(y) THEN NaN
    ELSE IF IsInf(x) \/ IsInf(y)
         THEN IF IsZero(x) \/ IsZero(y) THEN NaN ELSE Inf(FSign(x) * FSign(y))
    ELSE LET g1 == GCD(Abs(x.n), y.d)
             g2 == GCD(Abs(y.n), x.d)
             n1 == Abs(x.n) \div g1
             n2 == Abs(y.n) \div g2
             d1 == x.d \div g2
             d2 == y.d \div g1
             s  == FSign(x) * FSign(y)
             \* products past the 32-bit integers of TLC are decided
             \* before they are computed: a numerator that large over a small
             \* denominator is beyond FloatMax, and the reverse below 1/FloatMax
             small == 2147483647 \div FloatMax
         IN  IF n1 = 0 \/ n2 = 0 THEN Rat(0, 1)
             ELSE IF n1 > 2147483647 \div n2 /\ d1 <= small \div d2 THEN Inf(s)
             ELSE IF d1 > 2147483647 \div d2 /\ n1 <= small \div n2 THEN Rat(0, 1)
             ELSE F64(s * n1 * n2, d1 * d2)

\* The mutant of FDiv: a division that guards the zero divisor and returns 0.
FDivGuarded(x, y) ==
    IF IsNaN(x) \/ IsNaN(y) THEN NaN
    ELSE IF IsZero(y) THEN Rat(0, 1)
    ELSE IF IsInf(x) THEN (IF IsInf(y) THEN NaN ELSE Inf(FSign(x) * FSign(y)))
    ELSE IF IsInf(y) THEN Rat(0, 1)
    ELSE FMul(x, [k |-> "fin", n |-> FSign(y) * y.d, d |-> Abs(y.n)])

\* x / y
FDiv(x, y) ==
    IF IsNaN(x) \/ IsNaN(y) THEN NaN
    ELSE IF IsInf(x) THEN (IF IsInf(y) THEN NaN ELSE Inf(FSign(x) * FSign(y)))
    ELSE IF IsInf(y) THEN Rat(0, 1)
    ELSE IF IsZero(y) THEN (IF IsZero(x) THEN NaN ELSE Inf(FSign(x)))
    ELSE FMul(x, [k |-> "fin", n |-> FSign(y) * y.d, d |-> Abs(y.n)])

\* x + y
FAdd(x, y) ==
    IF IsNaN(x) \/ IsNaN(y) THEN NaN
    ELSE IF IsInf(x) /\ IsInf(y) THEN (IF x.n = y.n THEN x ELSE NaN)
    ELSE IF IsInf(x) THEN x
    ELSE IF IsInf(y) THEN y
    ELSE LET g == GCD(x.d, y.d)
         IN  F64(x.n * (y.d \div g) + y.n * (x.d \div g), (x.d \div g) * y.d)

\* x - y
FSub(x, y) == FAdd(x, [y EXCEPT !.n = -y.n])

\* x > y
FGt(x, y) ==
    IF IsNaN(x) \/ IsNaN(y) THEN FALSE
    ELSE IF IsInf(x) THEN x.n = 1 /\ ~(IsInf(y) /\ y.n = 1)
    ELSE IF IsInf(y) THEN y.n = -1
    ELSE x.n * y.d > y.n * x.d

\* x == y
FEq(x, y) == ~IsNaN(x) /\ ~IsNaN(y) /\ x = y

\* An integer or decimal literal of the source, n/d.
Lit(n, d) == F64(n, d)

(***************************************************************************)
(* tire.rs                                                                 *)
(***************************************************************************)
\* A character is a one-character string; "u0662" and "u0660" name the
\* ARABIC-INDIC DIGITs TWO and ZERO (members of the Unicode class Nd).
AsciiDigits == <<"0", "1", "2", "3", "4", "5", "6", "7", "8", "9">>

IsAsciiDigit(c) == \E i \in 1..10 : AsciiDigits[i] = c

DigitValue(c) == (CHOOSE i \in 1..10 : AsciiDigits[i] = c) - 1

\* The regex class \d: the regex crate is Unicode-aware by default.
IsDigit(c) == IsAsciiDigit(c) \/ c \in {"u0662", "u0660"}

\* The end of the greedy match of \d+ that starts at s[i].
RECURSIVE RunEnd(_, _)
RunEnd(s, i) == IF i < Len(s) /\ IsDigit(s[i + 1]) THEN RunEnd(s, i + 1) ELSE i

\* The mutant of FindFrom: the pattern \d+ instead of \d{2,}.
RECURSIVE FindFromAnyLength(_, _)
FindFromAnyLength(s, pos) ==
    IF pos > Len(s) THEN <<>>
    ELSE IF ~IsDigit(s[pos]) THEN FindFromAnyLength(s, pos + 1)
    ELSE LET e == RunEnd(s, pos)
         IN  <<SubSeq(s, pos, e)>> \o FindFromAnyLength(s, e + 1)

\* re.find_iter(value) for r"\d{2,}", searching from position pos: the
\* leftmost, greedy, non-overlapping matches, as the matched texts.
RECURSIVE FindFrom(_, _)
FindFrom(s, pos) ==
    IF pos > Len(s) THEN <<>>
    ELSE IF ~IsDigit(s[pos]) THEN FindFrom(s, pos + 1)
    ELSE LET e == RunEnd(s, pos)
         IN  IF e - pos + 1 >= 2
             THEN <<SubSeq(s, pos, e)>> \o FindFrom(s, e + 1)
             ELSE FindFrom(s, e + 1)

find_iter(s) == FindFrom(s, 1)

\* re.is_match(value)
is_match(s) == find_iter(s) # <<>>

\* The decimal value of a run of ASCII digits, as str::parse::<f64> yields it.
RECURSIVE DigitsValue(_, _)
DigitsValue(run, acc) ==
    IF run = <<>> THEN acc
    ELSE DigitsValue(Tail(run),
                     FAdd(FMul(acc, Lit(10, 1)), Lit(DigitValue(Head(run)), 1)))

\* digits.as_str().parse::<f64>(): Ok only for ASCII digits.
ParseOk(run) == \A i \in 1..Len(run) : IsAsciiDigit(run[i])

\* .filter_map(|digits| digits.as_str().parse().ok()).collect()
RECURSIVE filter_map_parse(_)
filter_map_parse(ms) ==
    IF ms = <<>> THEN <<>>
    ELSE IF ParseOk(Head(ms))
         THEN <<DigitsValue(Head(ms), Lit(0, 1))>> \o filter_map_parse(Tail(ms))
         ELSE filter_map_parse(Tail(ms))

\* formulas.rs: to_in
to_in(centimeters) == FDiv(centimeters, Lit(254, 100))

\* The mutant of height_mm: the sidewall counted once.
height_mm_once(width, aspect_ratio) == FMul(width, FDiv(aspect_ratio, Lit(100, 1)))

\* let height_mm = (width * (aspect_ratio / 100.0)) * 2.0;
height_mm(width, aspect_ratio) ==
    FMul(FMul(width, FDiv(aspect_ratio, Lit(100, 1))), Lit(2, 1))

\* The mutant of new_diameter: the wheel diameter subtracted.
new_diameter_minus(width, aspect_ratio, wheel_diameter) ==
    FSub(to_in(FDiv(height_mm(width, aspect_ratio), Lit(10, 1))), wheel_diameter)

\* let diameter = formulas::to_in(height_mm / 10.0) + wheel_diameter;
new_diameter(width, aspect_ratio, wheel_diameter) ==
    FAdd(to_in(FDiv(height_mm(width, aspect_ratio), Lit(10, 1))), wheel_diameter)

\* Tire::circumference
circumference(dia) == FMul(dia, Lit(314, 100))

\* The mutant of miles_per_rev: the diameter used where the circumference is.
miles_per_rev_of_diameter(dia) == FDiv(dia, FMul(Lit(5280, 1), Lit(12, 1)))

\* Tire::miles_per_rev
miles_per_rev(dia) == FDiv(circumference(dia), FMul(Lit(5280, 1), Lit(12, 1)))

\* Tire::revs_per_mile
revs_per_mile(dia) == FDiv(Lit(1, 1), miles_per_rev(dia))

\* The strings handed to Tire::new.
TireTokens ==
    {<<"2", "0">>, <<"0", "0">>, <<"5">>, <<"/">>, <<"u0662", "u0660">>}

RECURSIVE Concat(_)
Concat(ts) == IF ts = <<>> THEN <<>> ELSE Head(ts) \o Concat(Tail(ts))

SampleCodes ==
    { <<"2", "7", "5", "/", "5", "5", "R", "2", "0">>,
      <<"A", "B", "C">>,
      <<"2", "0", "/", "R">>,
      <<"0", "0", "/", "0", "0", "R", "0", "0">>,
      <<"u0662", "u0660", " ", "2", "7", "5", "/", "5", "5", "R", "2", "0">>,
      <<"2", "0", "u0662", "0", "0", "/", "5", "5", "R", "2", "0">>,
      <<"2", "7", "5", "/", "5", "5", "R", "2", "0", " ", "0", "0", " ", "5">>,
      <<"2", "0", "2", "0", "2", "0", "2", "0", "/", "0", "0", "R", "2", "0">> }

TireCodes ==
    SampleCodes \cup
    { Concat(ts) : ts \in UNION { [1..n -> TireTokens] : n \in 0..MaxTokens } }

TireInit ==
    /\ value \in TireCodes
    /\ tpc = "start"
    /\ panicAt = "none"
    /\ results = <<>>
    /\ diameter = None
    /\ circ = None
    /\ mpr = None
    /\ rpmile = None
    /\ call = None /\ prev = None
    /\ spoints = None /\ interval = None /\ si = None /\ points = <<>> /\ spc = "idle"

\* Tire::new(value)
TireNew ==
    /\ tpc = "start"
    /\ LET rs == filter_map_parse(find_iter(value))
       IN  IF ~is_match(value)
           THEN /\ tpc' = "panic"
                /\ panicAt' = "assert"
                /\ UNCHANGED <<results, diameter>>
           ELSE IF Len(rs) < 3
           THEN /\ tpc' = "panic"
                /\ panicAt' = "unwrap"
                /\ results' = rs
                /\ UNCHANGED diameter
           ELSE /\ tpc' = "ok"
                /\ results' = rs
                /\ diameter' = new_diameter(rs[1], rs[2], rs[3])
                /\ UNCHANGED panicAt
    /\ UNCHANGED <<value, circ, mpr, rpmile>>
    /\ UNCHANGED <<formulaVars, slopeVars>>

\* tire.circumference()
Circumference ==
    /\ tpc = "ok"
    /\ circ' = circumference(diameter)
    /\ UNCHANGED <<value, tpc, panicAt, results, diameter, mpr, rpmile>>
    /\ UNCHANGED <<formulaVars, slopeVars>>

\* tire.miles_per_rev()
MilesPerRev ==
    /\ tpc = "ok"
    /\ mpr' = miles_per_rev(diameter)
    /\ UNCHANGED <<value, tpc, panicAt, results, diameter, circ, rpmile>>
    /\ UNCHANGED <<formulaVars, slopeVars>>

\* tire.revs_per_mile()
RevsPerMile ==
    /\ tpc = "ok"
    /\ rpmile' = revs_per_mile(diameter)
    /\ UNCHANGED <<value, tpc, panicAt, results, diameter, circ, mpr>>
    /\ UNCHANGED <<formulaVars, slopeVars>>

TireNext == TireNew \/ Circumference \/ MilesPerRev \/ RevsPerMile

TireSpec == TireInit /\ [][TireNext]_vars

(***************************************************************************)
(* formulas.rs                                                             *)
(***************************************************************************)
\* The mutant of mph_from_oss: multiplies by the tire's revolutions per mile.
mph_from_oss_times_revs(oss, tire_revs_per_mile, axle_ratio) ==
    FMul(FMul(FDiv(oss, axle_ratio), tire_revs_per_mile), Lit(60, 1))

\* oss / axle_ratio / tire_revs_per_mile * 60.0
mph_from_oss(oss, tire_revs_per_mile, axle_ratio) ==
    FMul(FDiv(FDiv(oss, axle_ratio), tire_revs_per_mile), Lit(60, 1))

\* ((tire_revs_per_mile * mph) / 60.0) * axle_ratio
oss_from_mph(mph, tire_revs_per_mile, axle_ratio) ==
    FMul(FDiv(FMul(tire_revs_per_mile, mph), Lit(60, 1)), axle_ratio)

\* oss * trans_gear_ratio
engine_rpm_from_oss(oss, trans_gear_ratio) == FMul(oss, trans_gear_ratio)

\* rpm / trans_gear_ratio
oss_from_engine_rpm(rpm, trans_gear_ratio) == FDiv(rpm, trans_gear_ratio)

\* (hp * 5252.0) / rpm
hp_to_torque(hp, rpm) == FDiv(FMul(hp, Lit(5252, 1)), rpm)

\* The mutant of torque_to_hp: the constant mistyped as 5255.
torque_to_hp_5255(torque, rpm) == FDiv(FMul(torque, rpm), Lit(5255, 1))

\* (torque * rpm) / 5252.0
torque_to_hp(torque, rpm) == FDiv(FMul(torque, rpm), Lit(5252, 1))

\* f64::round: to the nearest integer, halves away from zero.
FRound(x) ==
    IF ~IsFinite(x) THEN x
    ELSE F64(FSign(x) * ((2 * Abs(x.n) + x.d) \div (2 * x.d)), 1)

RECURSIVE Pow10(_)
Pow10(e) == IF e = 0 THEN 1 ELSE 10 * Pow10(e - 1)

\* The tests' round(number, precision): (number * scale).round() / scale
round(number, precision) ==
    LET scale == Lit(Pow10(precision), 1)
    IN  FDiv(FRound(FMul(number, scale)), scale)

\* The values callers pass as speeds (oss, mph, rpm).
SpeedInputs ==
    { Lit(0, 1), Lit(3, 1), Lit(100, 1), Lit(1000, 1), Lit(-60, 1), Lit(1, 2),
      Lit(2000, 1), Lit(1, 2000), NaN, Inf(1), Inf(-1) }

\* The values callers pass as ratios (tire revolutions per mile, axle and gear ratio).
RatioInputs ==
    { Lit(0, 1), Lit(600, 1), Lit(321, 100), Lit(2, 1), Lit(-3, 1),
      Lit(2000, 1), Lit(1, 2000), NaN, Inf(1) }

\* The horsepower and rpm values of test_horsepower_and_torque, and the
\* degenerate ones.
HpInputs == { Lit(h, 1) : h \in 0..MaxHp } \cup { Lit(-2, 1), NaN, Inf(1) }

RpmInputs == { Lit(r, 1) : r \in 0..MaxRpm } \cup { Lit(3000, 1), NaN, Inf(1) }

Call(fn, a1, a2, a3, result) ==
    [fn |-> fn, a1 |-> a1, a2 |-> a2, a3 |-> a3, result |-> result]

NoCall == Call("none", None, None, None, None)

\* The formulas are pure functions: a behaviour is one call, or one call and
\* the inverse call fed with its result.

FormulaInit ==
    /\ call = NoCall
    /\ prev = NoCall
    /\ value = <<>> /\ tpc = "idle" /\ panicAt = "none" /\ results = <<>>
    /\ diameter = None /\ circ = None /\ mpr = None /\ rpmile = None
    /\ spoints = None /\ interval = None /\ si = None /\ points = <<>> /\ spc = "idle"

\* mph_from_oss(oss, tire_revs_per_mile, axle_ratio)
MphFromOss ==
    /\ call = NoCall
    /\ \E oss \in SpeedInputs, r \in RatioInputs, a \in RatioInputs :
          call' = Call("mph_from_oss", oss, r, a, mph_from_oss(oss, r, a))
    /\ prev' = NoCall
    /\ UNCHANGED <<tireVars, slopeVars>>

\* oss_from_mph(mph, tire_revs_per_mile, axle_ratio)
OssFromMph ==
    /\ call = NoCall
    /\ \E mph \in SpeedInputs, r \in RatioInputs, a \in RatioInputs :
          call' = Call("oss_from_mph", mph, r, a, oss_from_mph(mph, r, a))
    /\ prev' = NoCall
    /\ UNCHANGED <<tireVars, slopeVars>>

\* mph_from_oss(oss, r, a) with oss the value oss_from_mph(mph, r, a) just returned
MphFromOssOfResult ==
    /\ call.fn = "oss_from_mph"
    /\ call' = Call("mph_from_oss", call.result, call.a2, call.a3,
                    mph_from_oss(call.result, call.a2, call.a3))
    /\ prev' = call
    /\ UNCHANGED <<tireVars, slopeVars>>

\* engine_rpm_from_oss(oss, trans_gear_ratio)
EngineRpmFromOss ==
    /\ call = NoCall
    /\ \E oss \in SpeedInputs, g \in RatioInputs :
          call' = Call("engine_rpm_from_oss", oss, g, None, engine_rpm_from_oss(oss, g))
    /\ prev' = NoCall
    /\ UNCHANGED <<tireVars, slopeVars>>

\* oss_from_engine_rpm(rpm, trans_gear_ratio)
OssFromEngineRpm ==
    /\ call = NoCall
    /\ \E rpm \in SpeedInputs, g \in RatioInputs :
          call' = Call("oss_from_engine_rpm", rpm, g, None, oss_from_engine_rpm(rpm, g))
    /\ prev' = NoCall
    /\ UNCHANGED <<tireVars, slopeVars>>

\* hp_to_torque(hp, rpm)
HpToTorque ==
    /\ call = NoCall
    /\ \E hp \in HpInputs, rpm \in RpmInputs :
          call' = Call("hp_to_torque", hp, rpm, None, hp_to_torque(hp, rpm))
    /\ prev' = NoCall
    /\ UNCHANGED <<tireVars, slopeVars>>

\* torque_to_hp(torque, rpm)
TorqueToHp ==
    /\ call = NoCall
    /\ \E torque \in HpInputs, rpm \in RpmInputs :
          call' = Call("torque_to_hp", torque, rpm, None, torque_to_hp(torque, rpm))
    /\ prev' = NoCall
    /\ UNCHANGED <<tireVars, slopeVars>>

\* torque_to_hp(torque_calculated, rpm) with torque_calculated the value
\* hp_to_torque(hp, rpm) just returned (test_horsepower_and_torque)
TorqueToHpOfResult ==
    /\ call.fn = "hp_to_torque"
    /\ call' = Call("torque_to_hp", call.result, call.a2, None,
                    torque_to_hp(call.result, call.a2))
    /\ prev' = call
    /\ UNCHANGED <<tireVars, slopeVars>>

FormulaNext ==
    \/ MphFromOss
    \/ OssFromMph
    \/ MphFromOssOfResult
    \/ EngineRpmFromOss
    \/ OssFromEngineRpm
    \/ HpToTorque
    \/ TorqueToHp
    \/ TorqueToHpOfResult

FormulaSpec == FormulaInit /\ [][FormulaNext]_vars

(***************************************************************************)
(* slope.rs                                                                *)
(***************************************************************************)
Point(x, y) == [x |-> x, y |-> y]

\* SlopePoints::slope
slope(p) == Point(FSub(p.end.x, p.start.x), FSub(p.end.y, p.start.y))

\* SlopePoints::m
m(p) == FDiv(slope(p).y, slope(p).x)

SlopeLines ==
    { [start |-> Point(Lit(sx, 1), Lit(sy, 1)), end |-> Point(Lit(ex, 1), Lit(ey, 1))] :
        sx \in {0, 1}, sy \in {0}, ex \in {100, 10, 4, -5}, ey \in {100, 10, 2} }

IntervalInputs == { Lit(10, 1), Lit(1, 1), Lit(2, 1), Lit(1, 2) }

\* get_range_from_interval, lines 86-89: the state on entry to the loop.
SlopeInit ==
    /\ spoints \in SlopeLines
    /\ interval \in IntervalInputs
    /\ si = Lit(0, 1)
    /\ points = <<>>
    /\ spc = "loop"
    /\ value = <<>> /\ tpc = "idle" /\ panicAt = "none" /\ results = <<>>
    /\ diameter = None /\ circ = None /\ mpr = None /\ rpmile = None
    /\ call = None /\ prev = None

\* let value = i*interval; if value > self.points.end.x { break; }
LoopBreak ==
    /\ spc = "loop"
    /\ FGt(FMul(si, interval), spoints.end.x)
    /\ spc' = "done"
    /\ UNCHANGED <<spoints, interval, si, points>>
    /\ UNCHANGED <<tireVars, formulaVars>>

\* points.push(Point::from(i, m*i)); i += interval;
\* (m is the line's slope, as in the commented-out line 87.)
LoopPush ==
    /\ spc = "loop"
    /\ ~FGt(FMul(si, interval), spoints.end.x)
    /\ points' = Append(points, Point(si, FMul(m(spoints), si)))
    /\ si' = FAdd(si, interval)
    /\ UNCHANGED <<spoints, interval, spc>>
    /\ UNCHANGED <<tireVars, formulaVars>>

SlopeNext == LoopBreak \/ LoopPush

SlopeSpec == SlopeInit /\ [][SlopeNext]_vars

(***************************************************************************)
(* Properties of tire.rs, checked under TireSpec.                          *)
(***************************************************************************)
\* The characters \d matches, and the ASCII digits among them.
AllDigits == { c \in {"u0662", "u0660"} \cup { AsciiDigits[i] : i \in 1..10 } : IsDigit(c) }

OnlyAsciiDigits == { AsciiDigits[i] : i \in 1..10 }

\* The positions where a maximal run of two or more characters of D starts.
QualifyingStarts(s, D) ==
    { i \in 1..Len(s) : /\ s[i] \in D
                        /\ (i = 1 \/ s[i - 1] \notin D)
                        /\ i < Len(s)
                        /\ s[i + 1] \in D }

\* The maximal run of characters of D that starts at s[i].
RunAt(s, i, D) ==
    LET j == CHOOSE j \in i..Len(s) :
                 /\ \A k \in i..j : s[k] \in D
                 /\ (j = Len(s) \/ s[j + 1] \notin D)
    IN  SubSeq(s, i, j)

\* The n-th qualifying run from the left.
NthRun(s, n, D) ==
    LET Q == QualifyingStarts(s, D)
    IN  RunAt(s, CHOOSE i \in Q : Cardinality({ j \in Q : j < i }) = n - 1, D)

\* The number a run of ASCII digits denotes.
RECURSIVE RunNumber(_)
RunNumber(run) ==
    IF run = <<>> THEN 0
    ELSE 10 * RunNumber(SubSeq(run, 1, Len(run) - 1)) + DigitValue(run[Len(run)])

\* width, aspect ratio and wheel diameter are the first three runs of D.
TakesFirstThree(D) ==
    \A n \in 1..3 :
        /\ \A i \in 1..Len(NthRun(value, n, D)) : NthRun(value, n, D)[i] \in OnlyAsciiDigits
        /\ results[n] = IF Len(NthRun(value, n, D)) > 9 THEN Inf(1)
                        ELSE Lit(RunNumber(NthRun(value, n, D)), 1)

Returned == tpc \in {"ok", "panic"}

Code275 == <<"2", "7", "5", "/", "5", "5", "R", "2", "0">>

\* C1: with fewer than three maximal runs of two or more digits in the input
\* (under the regex's digit class or counting ASCII digits only) Tire::new
\* fails and no tire value exists.
C1_FewRunsFail ==
    (Returned /\ (\/ Cardinality(QualifyingStarts(value, AllDigits)) < 3
                  \/ Cardinality(QualifyingStarts(value, OnlyAsciiDigits)) < 3))
        => (tpc = "panic" /\ diameter = None)

C1_Witness ==
    /\ tpc = "panic"
    /\ panicAt = "unwrap"
    /\ Cardinality(QualifyingStarts(value, AllDigits)) = 2

\* C2 as stated: with at least three qualifying runs the constructor succeeds
\* and width, aspect ratio and wheel diameter are the first three runs, whether
\* the runs are counted with the regex's digit class or with ASCII digits only.
C2_FirstThreeRuns ==
    (/\ Returned
     /\ Cardinality(QualifyingStarts(value, AllDigits)) >= 3
     /\ Cardinality(QualifyingStarts(value, OnlyAsciiDigits)) >= 3)
        => /\ tpc = "ok"
           /\ TakesFirstThree(AllDigits) \/ TakesFirstThree(OnlyAsciiDigits)

\* The first k digits after the decimal point of r/d (0 <= r < d).
RECURSIVE FracDigits(_, _, _)
FracDigits(r, d, k) ==
    IF k = 0 THEN <<>>
    ELSE <<(r * 10) \div d>> \o FracDigits((r * 10) % d, d, k - 1)

\* C3: a finite diameter is w * a / 1270 + d, that is
\* (w * a * 2 / 1000) / 2.54 + d, for the parsed width w, aspect ratio a and
\* wheel diameter d; for "275/55R20" it is 31.909448818897637...
C3_Diameter ==
    (tpc = "ok" /\ IsFinite(diameter))
        => LET w == results[1].n
               a == results[2].n
               d == results[3].n
           IN  /\ \A n \in 1..3 : IsFinite(results[n]) /\ results[n].d = 1
               /\ diameter = Rat(w * a + 1270 * d, 1270)
               /\ value = Code275 =>
                     /\ diameter.n \div diameter.d = 31
                     /\ FracDigits(diameter.n % diameter.d, diameter.d, 15)
                            = <<9, 0, 9, 4, 4, 8, 8, 1, 8, 8, 9, 7, 6, 3, 7>>

C3_Witness == tpc = "ok" /\ value = Code275 /\ IsFinite(diameter)

C5_UnparsableRunFails ==
    (Returned /\ \E i \in QualifyingStarts(value, AllDigits) :
                     ~ParseOk(RunAt(value, i, AllDigits)))
        => tpc = "panic"

\* C6: the calls on a tire leave diameter alone, and the values they return
\* satisfy circumference = diameter * 3.14,
\* miles_per_rev = circumference / (5280 * 12), revs_per_mile = 1 / miles_per_rev.
C6_Metrics ==
    [][tpc = "ok" =>
          /\ diameter' = diameter
          /\ circ' # None => circ' = FMul(diameter', Lit(314, 100))
          /\ (circ' # None /\ mpr' # None) => mpr' = FDiv(circ', Lit(63360, 1))
          /\ (mpr' # None /\ rpmile' # None) => rpmile' = FDiv(Lit(1, 1), mpr')
      ]_vars

C6_Witness ==
    /\ tpc = "ok"
    /\ value = Code275
    /\ circ = Lit(254497, 2540)
    /\ mpr # None
    /\ rpmile = Lit(160934400, 254497)

(***************************************************************************)
(* Properties of formulas.rs, checked under FormulaSpec.                   *)
(***************************************************************************)
\* `call` is mph_from_oss(oss_from_mph(mph, r, a), r, a).
MphRoundTrip == call.fn = "mph_from_oss" /\ prev.fn = "oss_from_mph"

\* C7 as stated: for every mph and all non-zero r and a the round trip
\* returns mph.
C7_RoundTripAll ==
    (/\ MphRoundTrip
     /\ ~IsNaN(prev.a1)
     /\ ~IsNaN(prev.a2) /\ ~IsZero(prev.a2)
     /\ ~IsNaN(prev.a3) /\ ~IsZero(prev.a3))
        => FEq(call.result, prev.a1)

\* x is finite, and zero only if mph is: no overflow and no underflow.
InRange(x, mph) == IsFinite(x) /\ (IsZero(x) => IsZero(mph))

\* C7 as amended: for finite mph and finite non-zero r and a the round trip
\* returns mph, provided no intermediate result overflows or underflows.
C7_RoundTripInRange ==
    (/\ MphRoundTrip
     /\ IsFinite(prev.a1)
     /\ IsFinite(prev.a2) /\ ~IsZero(prev.a2)
     /\ IsFinite(prev.a3) /\ ~IsZero(prev.a3)
     /\ LET mph == prev.a1
            p1  == FMul(prev.a2, mph)
            p2  == FDiv(p1, Lit(60, 1))
            oss == prev.result
            q1  == FDiv(oss, prev.a3)
            q2  == FDiv(q1, prev.a2)
        IN  /\ InRange(p1, mph) /\ InRange(p2, mph) /\ InRange(oss, mph)
            /\ InRange(q1, mph) /\ InRange(q2, mph))
        => FEq(call.result, prev.a1)

C7_Witness ==
    /\ MphRoundTrip
    /\ prev.a1 = Lit(100, 1) /\ prev.a2 = Lit(600, 1) /\ prev.a3 = Lit(321, 100)
    /\ prev.result = Lit(3210, 1)
    /\ call.result = Lit(100, 1)

\* x is an integer of lo..hi.
IsIntIn(x, lo, hi) == IsFinite(x) /\ x.d = 1 /\ x.n >= lo /\ x.n <= hi

\* C8: for integer hp in [1,1000) and integer rpm in [1,10000),
\* torque_to_hp(hp_to_torque(hp, rpm), rpm) equals hp once both are rounded
\* to 3 decimals.
C8_HpRoundTrip ==
    (/\ call.fn = "torque_to_hp"
     /\ prev.fn = "hp_to_torque"
     /\ IsIntIn(prev.a1, 1, 999)
     /\ IsIntIn(prev.a2, 1, 9999))
        => round(prev.a1, 3) = round(call.result, 3)

C8_Witness ==
    /\ call.fn = "torque_to_hp"
    /\ prev.fn = "hp_to_torque"
    /\ prev.a1 = Lit(3, 1) /\ prev.a2 = Lit(7, 1)
    /\ prev.result = Lit(15756, 7)
    /\ call.result = Lit(3, 1)

\* C9: every call of the six formulas returns an f64, and where the divisor
\* (axle_ratio or tire_revs_per_mile of mph_from_oss, trans_gear_ratio of
\* oss_from_engine_rpm, rpm of hp_to_torque) is 0 that value is an infinity or
\* NaN.
C9_ZeroDivisorNonFinite ==
    call # NoCall
        => /\ call.result.k \in {"fin", "inf", "nan"}
           /\ (call.fn = "mph_from_oss" /\ (IsZero(call.a2) \/ IsZero(call.a3)))
                 => ~IsFinite(call.result)
           /\ (call.fn \in {"oss_from_engine_rpm", "hp_to_torque"} /\ IsZero(call.a2))
                 => ~IsFinite(call.result)

C9_Witness ==
    /\ call.fn = "hp_to_torque"
    /\ call.a1 = Lit(3, 1)
    /\ IsZero(call.a2)
    /\ call.result = Inf(1)

(***************************************************************************)
(* Properties of slope.rs, checked under SlopeSpec.                        *)
(***************************************************************************)
\* The greatest k with k * interval <= end.x, or -1 (interval > 0).
LastSample ==
    IF spoints.end.x.n < 0 THEN -1
    ELSE (spoints.end.x.n * interval.d) \div (spoints.end.x.d * interval.n)

\* C10 as stated: for a line from (0,0), the result holds, for every k with
\* k * interval < end.x, the point (k * interval, m * k * interval) at index k;
\* for end (100,100) and interval 10, at least the ten points (10i, 10i).
C10_SamplesAtMultiples ==
    (spc = "done" /\ spoints.start = Point(Lit(0, 1), Lit(0, 1)))
        => /\ \A k \in 0..LastSample :
                 FGt(spoints.end.x, FMul(Lit(k, 1), interval))
                    => /\ Len(points) >= k + 1
                       /\ points[k + 1].x = FMul(Lit(k, 1), interval)
                       /\ points[k + 1].y = FMul(m(spoints), points[k + 1].x)
           /\ (spoints.end = Point(Lit(100, 1), Lit(100, 1)) /\ interval = Lit(10, 1))
                 => /\ Len(points) >= 10
                    /\ \A i \in 0..9 :
                          points[i + 1] = Point(Lit(10 * i, 1), Lit(10 * i, 1))

====
